---- MODULE Spec2Model ----
(***************************************************************************)
(* A model of gocore's generic Tree (src/tree.go).                         *)
(*                                                                         *)
(* A Go Tree[N] is a map[N]Tree[N]: a reference to a map object whose keys *)
(* are node identities and whose values are references to further maps.    *)
(* The model keeps the map objects in a heap, because Family returns       *)
(* forests that share map objects with the forest they were taken from.    *)
(* A reference is an address; the nil Tree is the address Nil.             *)
(*                                                                         *)
(* Go ranges over a map in an unspecified order.  Every operator that      *)
(* ranges over a map therefore returns the SET of results the call can     *)
(* produce, one for every order the runtime may pick.                      *)
(***************************************************************************)
EXTENDS Integers, Sequences, FiniteSets, TLC

\* ------------------------------------------------------------- bounds
\* Identities used by the short paths passed to Add: 1..NumIds.
NumIds == 2
\* Longest short path passed to Add.
MaxLen == 2
\* Number of Add calls made on top of the initial forest.
MaxAdds == 1
\* Length of the deep chain 1 -> 2 -> ... -> DeepLen of the deep initial forest.
DeepLen == 12
\* Longest parent chain BuildTree is followed along.
MaxWalk == 4
\* The most pairs a consumer of All or Ordered takes before it stops.
MaxStop == 3
\* Number of threads that read the finished forest at the same time.
NumReaders == 2
\* Longest C char array passed to GoStringN.
MaxChars == 3
\* Most layers of an error value: the base error and what wraps it.
MaxLayers == 2
\* Number of goroutines that call a cache at the same time.
NumCallers == 2
\* Number of keys of a cache: the keys are 1..NumKeys.
NumKeys == 2
\* Most calls made on a cache in one run.
MaxCalls == 3

\* Initial length and capacity of the scratch buffer of Ancestors.
InitCap == 10

\* ------------------------------------------------------------- values
\* The zero value of the node type N.
Zero == 0
\* The nil Tree.
Nil == <<>>
\* The address of the forest under construction.
Root == <<0>>
\* The address of the forest a call of Family allocates (fam := Tree[N]{}).
Fam == <<-1>>
\* The address of the map allocated for key n of the map at address a.
Child(a, n) == Append(a, n)
\* A nil slice: len 0, like the empty slice.
NilSlice == <<>>

\* Tree[N]{}: a fresh empty map at address a.
NewTree(h, a) == (a :> <<>>) @@ h

\* The scenario of the documentation: A=1, B=2, C=3, D=4, E=5.
ScenarioPaths == << <<1, 2, 4>>, <<1, 3>>, <<1, 2, 5>> >>
\* A chain deeper than the scratch buffer of Ancestors is long.
DeepPath == [i \in 1..DeepLen |-> i]
\* Two roots, no identity at two positions.
TwoRootPaths == << <<1, 2>>, <<3>> >>

RECURSIVE SeqsUpTo(_, _)
SeqsUpTo(S, n) ==
  IF n = 0 THEN {<<>>}
  ELSE LET shorter == SeqsUpTo(S, n - 1)
       IN  shorter \cup {Append(s, x) : s \in shorter, x \in S}

\* The paths the model passes to Add.
ShortPaths == SeqsUpTo(1..NumIds, MaxLen)

RECURSIVE Perms(_)
\* Every order in which a range over a map with key set S can deliver the keys.
Perms(S) ==
  IF S = {} THEN {<<>>}
  ELSE UNION {{<<x>> \o p : p \in Perms(S \ {x})} : x \in S}

\* ------------------------------------------------------------- Tree.Add
\* Add without its recursion: only nodes[0] is inserted.
AddShallow(h, tr, nodes) ==
  IF Len(nodes) > 0 /\ Head(nodes) \notin DOMAIN h[tr]
  THEN NewTree([h EXCEPT ![tr] = (Head(nodes) :> Child(tr, Head(nodes))) @@ @],
               Child(tr, Head(nodes)))
  ELSE h

RECURSIVE AddOverwrite(_, _, _)
\* Add without its test for an existing key: tr[nodes[0]] is always replaced
\* by a fresh empty Tree.
AddOverwrite(h, tr, nodes) ==
  IF Len(nodes) > 0
  THEN LET n  == Head(nodes)
           h1 == NewTree([h EXCEPT ![tr] = (n :> Child(tr, n)) @@ @],
                         Child(tr, n))
       IN  AddOverwrite(h1, h1[tr][n], Tail(nodes))
  ELSE h

RECURSIVE AddSkipExisting(_, _, _)
\* Add that takes an existing nodes[0] as done and goes on with the rest of
\* the path in the same Tree.
AddSkipExisting(h, tr, nodes) ==
  IF Len(nodes) > 0
  THEN LET n == Head(nodes)
       IN  IF n \notin DOMAIN h[tr]
           THEN LET h1 == NewTree([h EXCEPT ![tr] = (n :> Child(tr, n)) @@ @],
                                  Child(tr, n))
                IN  AddSkipExisting(h1, h1[tr][n], Tail(nodes))
           ELSE AddSkipExisting(h, tr, Tail(nodes))
  ELSE h

RECURSIVE AddEmptyResets(_, _, _)
\* Add that, called with no nodes, empties the Tree it is called on.
AddEmptyResets(h, tr, nodes) ==
  IF Len(nodes) > 0
  THEN LET n  == Head(nodes)
           h1 == IF n \notin DOMAIN h[tr]
                 THEN NewTree([h EXCEPT ![tr] = (n :> Child(tr, n)) @@ @],
                              Child(tr, n))
                 ELSE h
       IN  AddEmptyResets(h1, h1[tr][n], Tail(nodes))
  ELSE NewTree(h, tr)


RECURSIVE AddReplaceSiblings(_, _, _)
\* Add that makes a new key the only key of its Tree.
AddReplaceSiblings(h, tr, nodes) ==
  IF Len(nodes) > 0
  THEN LET n  == Head(nodes)
           h1 == IF n \notin DOMAIN h[tr]
                 THEN NewTree([h EXCEPT ![tr] = (n :> Child(tr, n))],
                              Child(tr, n))
                 ELSE h
       IN  AddReplaceSiblings(h1, h1[tr][n], Tail(nodes))
  ELSE h


RECURSIVE Add(_, _, _)
\* tr.Add(nodes...): the heap after the call.
Add(h, tr, nodes) ==
  IF Len(nodes) > 0
  THEN LET n  == Head(nodes)
           h1 == IF n \notin DOMAIN h[tr]
                 THEN NewTree([h EXCEPT ![tr] = (n :> Child(tr, n)) @@ @],
                              Child(tr, n))
                 ELSE h
       IN  Add(h1, h1[tr][n], Tail(nodes))
  ELSE h

RECURSIVE AddAll(_, _, _)
\* Add applied to each path of a sequence of paths in turn.
AddAll(h, tr, paths) ==
  IF paths = <<>> THEN h
  ELSE AddAll(Add(h, tr, Head(paths)), tr, Tail(paths))

\* ------------------------------------------------------------- Tree.All
RECURSIVE pushKeysFlat(_, _, _, _)
\* The range loop of push without the descent into the node's subtree.
pushKeysFlat(h, tr, depth, keys) ==
  IF keys = <<>> THEN {<<>>}
  ELSE {<< <<depth, Head(keys)>> >> \o rest :
           rest \in pushKeysFlat(h, tr, depth, Tail(keys))}

RECURSIVE push(_, _, _)
RECURSIVE pushKeys(_, _, _, _)
\* The range loop of push descending with the depth left as it is.
pushKeysSameDepth(h, tr, depth, keys) ==
  IF keys = <<>> THEN {<<>>}
  ELSE {<< <<depth, Head(keys)>> >> \o below \o rest :
           below \in push(h, h[tr][Head(keys)], depth),
           rest \in pushKeys(h, tr, depth, Tail(keys))}

\* The body of push's range loop for the keys delivered in the order keys.
pushKeys(h, tr, depth, keys) ==
  IF keys = <<>> THEN {<<>>}
  ELSE {<< <<depth, Head(keys)>> >> \o below \o rest :
           below \in push(h, h[tr][Head(keys)], depth + 1),
           rest \in pushKeys(h, tr, depth, Tail(keys))}

\* tr.push(depth, yield) with a consumer that never stops: the sequences of
\* (depth, node) pairs it can yield.
push(h, tr, depth) ==
  UNION {pushKeys(h, tr, depth, keys) : keys \in Perms(DOMAIN h[tr])}

\* tr.All()
All(h, tr) == push(h, tr, 0)

\* ------------------------------------------------------------- Tree.DepthTree
Max(a, b) == IF a >= b THEN a ELSE b

RECURSIVE MaxOver(_)
MaxOver(S) ==
  IF S = {} THEN 0
  ELSE LET x == CHOOSE y \in S : TRUE IN Max(x, MaxOver(S \ {x}))

RECURSIVE DepthTreeFromZero(_, _)
\* DepthTree with depth := 0 as its baseline.
DepthTreeFromZero(h, tr) ==
  Max(0, MaxOver({DepthTreeFromZero(h, h[tr][n]) + 1 : n \in DOMAIN h[tr]}))

RECURSIVE DepthTree(_, _)
\* tr.DepthTree()
DepthTree(h, tr) ==
  Max(1, MaxOver({DepthTree(h, h[tr][n]) + 1 : n \in DOMAIN h[tr]}))

\* ------------------------------------------------------------- Tree.Ancestors
\* make([]N, k)
Make(k) == [i \in 1..k |-> Zero]
\* copy(dst, src)
Copy(dst, src) ==
  [i \in 1..Len(dst) |-> IF i <= Len(src) THEN src[i] ELSE dst[i]]

\* The growth step without copy(ns, nodes).
GrowNoCopy(nodes, depth) ==
  IF depth >= Len(nodes) THEN Make(2 * Len(nodes)) ELSE nodes

\* The scratch buffer after the growth step of the loop body.
Grow(nodes, depth) ==
  IF depth >= Len(nodes) THEN Copy(Make(2 * Len(nodes)), nodes) ELSE nodes

RECURSIVE AncestorsLoopWithSelf(_, _, _, _)
\* The loop of Ancestors returning nodes[:depth+1], the target included.
AncestorsLoopWithSelf(yielded, i, nodes, node) ==
  IF i > Len(yielded) THEN NilSlice
  ELSE LET depth == yielded[i][1]
           n     == yielded[i][2]
           ns    == [Grow(nodes, depth) EXCEPT ![depth + 1] = n]
       IN  IF node = n THEN SubSeq(ns, 1, depth + 1)
           ELSE AncestorsLoopWithSelf(yielded, i + 1, ns, node)


RECURSIVE AncestorsLoop(_, _, _, _)
\* The loop of Ancestors over the pairs yielded, from pair i on, with the
\* scratch buffer nodes (its capacity is its length).
AncestorsLoop(yielded, i, nodes, node) ==
  IF i > Len(yielded) THEN NilSlice
  ELSE LET depth == yielded[i][1]
           n     == yielded[i][2]
           ns    == [Grow(nodes, depth) EXCEPT ![depth + 1] = n]
       IN  IF node = n THEN SubSeq(ns, 1, depth)
           ELSE AncestorsLoop(yielded, i + 1, ns, node)

\* tr.Ancestors(node): the results the call can return.
Ancestors(h, tr, node) ==
  {AncestorsLoop(yielded, 1, Make(InitCap), node) : yielded \in All(h, tr)}

\* ------------------------------------------------------------- Tree.FindTree
\* FindTree without its descent: only the keys of tr itself are looked at.
FindTreeTop(h, tr, node) ==
  IF node \in DOMAIN h[tr] THEN {tr} ELSE {Nil}

RECURSIVE FindTree(_, _, _)
\* tr.FindTree(node): the results the call can return.
FindTree(h, tr, node) ==
  IF node \in DOMAIN h[tr] THEN {tr}
  ELSE LET found == UNION {FindTree(h, h[tr][n], node) \ {Nil} :
                             n \in DOMAIN h[tr]}
       IN  IF found = {} THEN {Nil} ELSE found

\* ------------------------------------------------------------- Tree.Family
\* Family without tb[parent][node] = tr[node].
FamilyOfChain(h, node, anc, sub) ==
  IF Len(anc) = 0
  THEN {[heap |-> NewTree(h, Fam), ret |-> Fam]}
  ELSE {[heap |-> Add(NewTree(h, Fam), Fam, anc), ret |-> Fam]}

\* Family that prunes in place: the siblings of node are deleted from the
\* Tree FindTree returned before the family is put together.
FamilyOfPrune(h, node, anc, sub) ==
  IF Len(anc) = 0
  THEN {[heap |-> NewTree(h, Fam), ret |-> Fam]}
  ELSE LET parent == anc[Len(anc)]
           h0     == [h EXCEPT ![sub] = (node :> @[node])]
           h1     == Add(NewTree(h0, Fam), Fam, anc)
       IN  {[heap |-> [h1 EXCEPT ![h1[tb][parent]] =
                            (node :> h1[sub][node]) @@ @],
             ret  |-> Fam] : tb \in FindTree(h1, Fam, parent)}

\* The last statements of Family pruning in place: the siblings of node are
\* deleted from the Tree FindTree returned.
FamilyAttachPrune(h, fam, node, anc, sub) ==
  LET parent == anc[Len(anc)]
      h0     == [h EXCEPT ![sub] = (node :> @[node])]
  IN  {[h0 EXCEPT ![h0[tb][parent]] = (node :> h0[sub][node]) @@ @] :
         tb \in FindTree(h0, fam, parent)}

\* The last statements of Family, with fam at address fam holding the
\* chain anc: tb := fam.FindTree(parent); tb[parent][node] = tr[node].
FamilyAttach(h, fam, node, anc, sub) ==
  LET parent == anc[Len(anc)]
  IN  {[h EXCEPT ![h[tb][parent]] = (node :> h[sub][node]) @@ @] :
         tb \in FindTree(h, fam, parent)}

\* Family that returns the Tree it was called on when it finds no ancestors.
FamilyOfSelf(h, node, anc, sub) ==
  IF Len(anc) = 0
  THEN {[heap |-> h, ret |-> Root]}
  ELSE LET parent == anc[Len(anc)]
           h1     == Add(NewTree(h, Fam), Fam, anc)
       IN  {[heap |-> [h1 EXCEPT ![h1[tb][parent]] =
                            (node :> h1[sub][node]) @@ @],
             ret  |-> Fam] : tb \in FindTree(h1, Fam, parent)}

\* Family once Ancestors returned anc and tr.FindTree(node) returned sub.
FamilyOf(h, node, anc, sub) ==
  IF Len(anc) = 0
  THEN {[heap |-> NewTree(h, Fam), ret |-> Fam]}
  ELSE LET parent == anc[Len(anc)]
           h1     == Add(NewTree(h, Fam), Fam, anc)
       IN  {[heap |-> [h1 EXCEPT ![h1[tb][parent]] =
                            (node :> h1[sub][node]) @@ @],
             ret  |-> Fam] : tb \in FindTree(h1, Fam, parent)}

\* tr.Family(node): the heaps and results the call can end with.
Family(h, tr, node) ==
  IF node \in DOMAIN h[tr] THEN {[heap |-> h, ret |-> tr]}
  ELSE UNION {FamilyOf(h, node, anc, sub) :
                anc \in Ancestors(h, tr, node),
                sub \in FindTree(h, tr, node)}

\* ------------------------------------------------------------- Ordered
\* The comparison functions the model passes to Ordered.
Cmps == {"asc", "desc", "same"}

\* cmp(a, b) for the comparison function named c.
Cmp(c, a, b) ==
  CASE c = "asc"  -> a - b
    [] c = "desc" -> b - a
    [] OTHER      -> 0

\* The insertion step that leaves x where it arrived.
InsertUnsorted(s, x, c) == Append(s, x)

RECURSIVE Insert(_, _, _)
\* One pass of the insertion sort: x moves left past every element it
\* compares less than.
Insert(s, x, c) ==
  IF s = <<>> THEN <<x>>
  ELSE IF Cmp(c, x, s[Len(s)]) < 0
       THEN Append(Insert(SubSeq(s, 1, Len(s) - 1), x, c), s[Len(s)])
       ELSE Append(s, x)

RECURSIVE SortFunc(_, _)
\* slices.SortFunc(keys, cmp): an insertion sort for up to 12 elements.
SortFunc(keys, c) ==
  IF keys = <<>> THEN <<>>
  ELSE Insert(SortFunc(SubSeq(keys, 1, Len(keys) - 1), c), keys[Len(keys)], c)

\* Ordered(m, cmp): the orders in which it can yield the keys of the map.
Ordered(h, tr, c) == {SortFunc(keys, c) : keys \in Perms(DOMAIN h[tr])}

RECURSIVE order(_, _, _, _)
RECURSIVE orderKeys(_, _, _, _, _)
\* The range loop of order without the descent into the node's subtree.
orderKeysFlat(h, tr, depth, c, keys) ==
  IF keys = <<>> THEN {<<>>}
  ELSE {<< <<depth, Head(keys)>> >> \o rest :
           rest \in orderKeys(h, tr, depth, c, Tail(keys))}

\* The body of order's range loop for the keys delivered in the order keys.
orderKeys(h, tr, depth, c, keys) ==
  IF keys = <<>> THEN {<<>>}
  ELSE {<< <<depth, Head(keys)>> >> \o below \o rest :
           below \in order(h, h[tr][Head(keys)], depth + 1, c),
           rest \in orderKeys(h, tr, depth, c, Tail(keys))}

\* tr.order(depth, cmp, yield) with a consumer that never stops.
order(h, tr, depth, c) ==
  UNION {orderKeys(h, tr, depth, c, keys) : keys \in Ordered(h, tr, c)}

\* tr.Ordered(cmp)
TreeOrdered(h, tr, c) == order(h, tr, 0, c)

\* ------------------------------------------------------------- yield
\* What the consumer's yield returns once it has been called with the pairs
\* calls: a consumer that takes stopAt pairs returns false from the call
\* that hands it the last of them.
Yield(calls, stopAt) == Len(calls) < stopAt

RECURSIVE pushYield(_, _, _, _, _)
RECURSIVE pushYieldKeysOn(_, _, _, _, _, _)
\* The range loop of push going on with the next key whatever the push of
\* the subtree returned.
pushYieldKeysOn(h, tr, depth, keys, calls, stopAt) ==
  IF keys = <<>> THEN {[ok |-> TRUE, calls |-> calls]}
  ELSE LET called == Append(calls, <<depth, Head(keys)>>)
       IN  IF ~Yield(called, stopAt)
           THEN {[ok |-> FALSE, calls |-> called]}
           ELSE UNION {pushYieldKeysOn(h, tr, depth, Tail(keys), r.calls, stopAt) :
                         r \in pushYield(h, h[tr][Head(keys)], depth + 1,
                                         called, stopAt)}

RECURSIVE pushYieldKeys(_, _, _, _, _, _)
\* The range loop of push for the keys delivered in the order keys, after
\* the calls of yield made so far: whether push returns true, and the calls
\* of yield made by then.
pushYieldKeys(h, tr, depth, keys, calls, stopAt) ==
  IF keys = <<>> THEN {[ok |-> TRUE, calls |-> calls]}
  ELSE LET called == Append(calls, <<depth, Head(keys)>>)
       IN  IF ~Yield(called, stopAt)
           THEN {[ok |-> FALSE, calls |-> called]}
           ELSE UNION {IF ~r.ok
                       THEN {[ok |-> FALSE, calls |-> r.calls]}
                       ELSE pushYieldKeys(h, tr, depth, Tail(keys), r.calls,
                                          stopAt) :
                         r \in pushYield(h, h[tr][Head(keys)], depth + 1,
                                         called, stopAt)}

\* tr.push(depth, yield) with a consumer that stops.
pushYield(h, tr, depth, calls, stopAt) ==
  UNION {pushYieldKeys(h, tr, depth, keys, calls, stopAt) :
           keys \in Perms(DOMAIN h[tr])}

\* tr.All() ranged over by a consumer that stops: the calls of yield made.
AllYield(h, tr, stopAt) ==
  {r.calls : r \in pushYield(h, tr, 0, <<>>, stopAt)}

RECURSIVE orderYield(_, _, _, _, _, _)
RECURSIVE orderYieldKeys(_, _, _, _, _, _, _)
\* The range over Ordered(tr, cmp) in order: Ordered stops delivering keys
\* when the loop body returns.
orderYieldKeys(h, tr, depth, c, keys, calls, stopAt) ==
  IF keys = <<>> THEN {[ok |-> TRUE, calls |-> calls]}
  ELSE LET called == Append(calls, <<depth, Head(keys)>>)
       IN  IF ~Yield(called, stopAt)
           THEN {[ok |-> FALSE, calls |-> called]}
           ELSE UNION {IF ~r.ok
                       THEN {[ok |-> FALSE, calls |-> r.calls]}
                       ELSE orderYieldKeys(h, tr, depth, c, Tail(keys),
                                           r.calls, stopAt) :
                         r \in orderYield(h, h[tr][Head(keys)], depth + 1, c,
                                          called, stopAt)}

\* tr.order(depth, cmp, yield) with a consumer that stops.
orderYield(h, tr, depth, c, calls, stopAt) ==
  UNION {orderYieldKeys(h, tr, depth, c, keys, calls, stopAt) :
           keys \in Ordered(h, tr, c)}

\* tr.Ordered(cmp) ranged over by a consumer that stops.
TreeOrderedYield(h, tr, c, stopAt) ==
  {r.calls : r \in orderYield(h, tr, 0, c, <<>>, stopAt)}

\* ------------------------------------------------------------- heap
RECURSIVE Reach(_, _)
\* The addresses of the maps reachable from the Tree at address a.
Reach(h, a) ==
  IF a = Nil THEN {}
  ELSE {a} \cup UNION {Reach(h, h[a][n]) : n \in DOMAIN h[a]}

\* The heap without the maps no Tree of roots refers to any more.
Collect(h, roots) ==
  LET live == UNION {Reach(h, a) : a \in roots}
  IN  [a \in live |-> h[a]]

RECURSIVE Paths(_, _)
\* The positions of the Tree at address a: every root-to-node path.
Paths(h, a) ==
  UNION {{<<n>>} \cup {<<n>> \o p : p \in Paths(h, h[a][n])} :
           n \in DOMAIN h[a]}

\* The identities of the Tree at address a.
Ids(h, a) == {p[Len(p)] : p \in Paths(h, a)}

\* The positions at which identity n occurs.
Occurs(h, a, n) == {p \in Paths(h, a) : p[Len(p)] = n}

\* No identity occurs at two positions.
CollisionFree(h, a) == \A n \in Ids(h, a) : Cardinality(Occurs(h, a, n)) = 1

\* ------------------------------------------------------------- Table
\* The zero value of the value type V: a value without parent.
ZeroValue == [hasParent |-> FALSE, parent |-> Zero]
\* The values of a Table: no parent, or a parent identity (which need not be
\* a key of the table).
Values ==
  {ZeroValue} \cup {[hasParent |-> TRUE, parent |-> q] : q \in 1..(NumIds + 1)}
\* The tables BuildTree is called on.
Tables == UNION {[K -> Values] : K \in SUBSET (1..NumIds)}

\* The index expression that finds no entry for any key.
LookupZero(t, k) == ZeroValue

\* v.HasParent()
HasParent(v) == v.hasParent
\* v.Parent()
Parent(v) == v.parent
\* tb[k]: the zero value for a key the map does not hold.
Lookup(t, k) == IF k \in DOMAIN t THEN t[k] ELSE ZeroValue

\* tb.Parent(n): the parent node and its value, or the zero node and value.
TableParent(t, n) ==
  IF HasParent(Lookup(t, n))
  THEN <<Parent(Lookup(t, n)), Lookup(t, Parent(Lookup(t, n)))>>
  ELSE <<Zero, ZeroValue>>

\* ------------------------------------------------------------- GoStringN
\* The values of a C char: int8 values, 0 the null.
Chars == {-1, 0, 1, 2}

\* The C char arrays the model passes: up to MaxChars elements.
CharArrays == UNION {[1..n -> Chars] : n \in 1..MaxChars}

\* byte(c)
Byte(c) == c % 256

\* buf[:n]
Slice(buf, n) == [j \in 1..n |-> buf[j]]

RECURSIVE GoStringLoop(_, _, _)
\* The loop of GoString from element k on (counted from 0): bytes are
\* appended up to the null.
GoStringLoop(cs, buf, k) ==
  IF cs[k + 1] = 0 THEN buf
  ELSE GoStringLoop(cs, Append(buf, Byte(cs[k + 1])), k + 1)

\* GoString(char), for an array that holds a null.
GoString(cs) == GoStringLoop(cs, <<>>, 0)

RECURSIVE GoStringNRange(_, _, _, _, _)
\* for i, c = range cs, from element k on, with buf and i as the iterations
\* before left them: buf and i when the loop is left.
GoStringNRange(cs, l, buf, i, k) ==
  IF k >= l THEN <<buf, i>>
  ELSE IF cs[k + 1] = 0 THEN <<buf, k>>
       ELSE GoStringNRange(cs, l, [buf EXCEPT ![k + 1] = Byte(cs[k + 1])],
                           k, k + 1)

\* GoStringN(char, l) with the range loop.
GoStringN(cs, l) ==
  IF l = 0 THEN GoString(cs)
  ELSE LET left == GoStringNRange(cs, l, Make(l), 0, 0)
       IN  Slice(left[1], left[2])

RECURSIVE GoStringNFor(_, _, _, _)
\* for ; i < l; i++ of the counting GoStringN: s and i when the loop is
\* left.
GoStringNFor(cs, l, s, i) ==
  IF i >= l THEN <<s, i>>
  ELSE IF cs[i + 1] = 0 THEN <<s, i>>
       ELSE GoStringNFor(cs, l, [s EXCEPT ![i + 1] = Byte(cs[i + 1])], i + 1)

\* GoStringN(p, l) with the counting loop.
GoStringNCounted(cs, l) ==
  LET left == GoStringNFor(cs, l, Make(l), 0)
  IN  Slice(left[1], left[2])


\* ------------------------------------------------------------- Error
\* Error values: nil, an errors.New value, a syscall.Errno, a value of
\* fmt.Errorf with %w, a LogMessage (command.go) and an *Err (log.go).
NilErr == [kind |-> "nil"]
BaseErrs ==
  {NilErr, [kind |-> "errorString"], [kind |-> "Errno", errno |-> 2]}

\* fmt.Errorf("...: %w", e)
Errorf(e) == [kind |-> "wrapError", err |-> e]

\* e.Unwrap(), nil for a type without Unwrap.
Unwrap(e) ==
  CASE e.kind = "wrapError"  -> e.err
    [] e.kind = "LogMessage" -> e.E
    [] e.kind = "Err"        -> e.err
    [] OTHER                 -> NilErr

RECURSIVE As(_, _)
\* errors.As(err, &target) for a target of the type named kind: the first
\* error of that type in the chain of err, nil when there is none.
As(e, kind) ==
  IF e = NilErr THEN NilErr
  ELSE IF e.kind = kind THEN e
       ELSE As(Unwrap(e), kind)

\* The call sites runtime.Caller reports: the file path by its elements.
Sites ==
  {[file |-> <<"src", "gomon", "a.go">>, line |-> 10],
   [file |-> <<"src", "gocore", "b.go">>, line |-> 20]}

\* The sources and names passed.
Sources == {"s1", "s2"}

\* The details passed: none, or one map.
DetailArgs == {<<>>, << ("k" :> "v") >>}

\* filepath.Join(filepath.Base(filepath.Dir(file)), filepath.Base(file))
DirBase(file) == SubSeq(file, Len(file) - 1, Len(file))

RECURSIVE Merge(_, _)
\* The detail maps merged into detail, a later one over an earlier one.
Merge(detail, details) ==
  IF details = <<>> THEN detail
  ELSE Merge(Head(details) @@ detail, Tail(details))

\* The detail Error starts with: the errno of a syscall.Errno in the chain.
ErrnoDetail(e) ==
  IF As(e, "Errno") # NilErr THEN ("errno" :> As(e, "Errno").errno) ELSE <<>>

\* Error that makes a new record whatever err carries.
ErrorAlwaysNew(source, e, details, caller) ==
  [kind   |-> "LogMessage",
   Source |-> source,
   E      |-> e,
   File   |-> DirBase(caller.file),
   Line   |-> caller.line,
   Detail |-> Merge(ErrnoDetail(e), details)]

\* Error(source, err, details...) of command.go, called from caller.
Error(source, e, details, caller) ==
  IF As(e, "LogMessage") # NilErr
  THEN As(e, "LogMessage")
  ELSE [kind   |-> "LogMessage",
        Source |-> source,
        E      |-> e,
        File   |-> DirBase(caller.file),
        Line   |-> caller.line,
        Detail |-> Merge(ErrnoDetail(e), details)]

\* logMessage(depth, name, err) of log.go; caller is the site depth frames
\* up. The detail string is modelled by its parts.
logMessage(name, e, caller) ==
  IF e = NilErr THEN NilErr
  ELSE IF As(e, "Err") # NilErr
       THEN As(e, "Err")
       ELSE [kind   |-> "Err",
             user   |-> "user",
             file   |-> caller.file,
             line   |-> caller.line,
             detail |-> (IF name # "" THEN <<name>> ELSE <<>>) \o
                        (IF As(e, "Errno") # NilErr
                         THEN <<"errno", As(e, "Errno").errno>> ELSE <<>>),
             err    |-> e]

RECURSIVE Layers(_)
\* The number of errors in the chain of e.
Layers(e) == IF e = NilErr THEN 0 ELSE 1 + Layers(Unwrap(e))


\* ------------------------------------------------------------- state
VARIABLES
  heap,      \* the map objects, by address
  inserted,  \* history: every prefix of every path passed to Add
  nadd,      \* the number of Add calls made on the initial forest, not
             \* counting a repetition of the last one
  op,        \* the last call
  node,      \* its node argument, or Zero
  path,      \* the path passed to Add, or <<>>
  cmp,       \* the comparison function passed to Ordered, or "none"
  retNodes,  \* the slice Ancestors returned
  retTree,   \* the Tree FindTree or Family returned
  retDepth,  \* the number DepthTree returned
  retSeq,    \* the pairs All or Ordered called yield with
  stopAt,    \* the number of pairs the consumer of All or Ordered takes
             \* before it stops, or 0 when it takes them all
  tb,        \* BuildTree: the table
  todo,      \* BuildTree: the keys the range loop has not delivered yet
  bnode,     \* BuildTree: the key of the current iteration
  nodes,     \* BuildTree: the path collected for the current key
  val,       \* BuildTree: the value the parent walk stands at
  pc,        \* BuildTree: "range", "walk", "done"; "off" outside BuildTree
  readers,   \* concurrent readers: what each thread is at and holds
  built,     \* concurrent readers: the heap when construction finished
  cstr,      \* GoStringN: the C char array the pointer designates
  clen,      \* GoStringN: the length passed
  gofn,      \* GoStringN: the revision called, or "none"
  gostr,     \* GoStringN: the bytes of the string returned
  curErr,    \* Error: the error value the program holds
  lastErr,   \* Error: the last call made on it and its arguments
  cvalues,   \* newCache: the map cache.values
  cmu,       \* newCache: the RWMutex: its writer and its readers
  cgo,       \* newCache: what each goroutine in cache.lookup is at
  invoked,   \* newCache: history: the calls of the wrapped lookup, by key
  ccalls,    \* newCache: the number of calls of cache.lookup so far
  hnames,    \* Hostname: the map hnames.names
  hmu,       \* Hostname: the goroutine that holds hnames.Mutex, or Free
  hgo,       \* Hostname: what each goroutine in Hostname is at
  resolvers, \* Hostname: the goroutines hname.lookup started
  hstored,   \* Hostname: history: the values stored, by key, in order
  hcalls     \* Hostname: the number of calls of Hostname so far

apiVars ==
  <<nadd, op, node, path, cmp, retNodes, retTree, retDepth, retSeq, stopAt>>
buildVars == <<tb, todo, bnode, nodes, val, pc>>
readVars == <<readers, built>>
treeVars == <<heap, inserted, apiVars, buildVars, readVars>>
strVars == <<cstr, clen, gofn, gostr>>
errVars == <<curErr, lastErr>>
cacheVars == <<cvalues, cmu, cgo, invoked, ccalls>>
hostVars == <<hnames, hmu, hgo, resolvers, hstored, hcalls>>
concVars == <<cacheVars, hostVars>>
libVars == <<strVars, errVars, concVars>>
vars == <<treeVars, libVars>>

\* GoStringN is not in use.
StrOff ==
  /\ cstr = <<>>
  /\ clen = 0
  /\ gofn = "none"
  /\ gostr = <<>>

\* No error value is held.
ErrOff ==
  /\ curErr = [kind |-> "nil"]
  /\ lastErr = [fn |-> "none"]

\* No cache of newCache is in use.
CacheOff ==
  /\ cvalues = <<>>
  /\ cmu = [w |-> 0, r |-> {}]
  /\ cgo = <<>>
  /\ invoked = <<>>
  /\ ccalls = 0

\* Hostname is not in use.
HostOff ==
  /\ hnames = <<>>
  /\ hmu = <<>>
  /\ hgo = <<>>
  /\ resolvers = <<>>
  /\ hstored = <<>>
  /\ hcalls = 0

ConcOff ==
  /\ CacheOff
  /\ HostOff

\* Nothing of the package outside tree.go is in use.
LibOff ==
  /\ StrOff
  /\ ErrOff
  /\ ConcOff

Prefixes(p) == {SubSeq(p, 1, i) : i \in 1..Len(p)}

\* The forests the model starts from, each built by Add.
Seeds == {<<>>, ScenarioPaths, <<DeepPath>>, TwoRootPaths}

\* The nodes the model asks about: present ones and absent ones.
Targets == 1..(NumIds + 1) \cup Ids(heap, Root)

\* No call made, no result held.
NoCall ==
  /\ nadd = 0
  /\ op = "idle"
  /\ node = Zero
  /\ path = <<>>
  /\ cmp = "none"
  /\ retNodes = NilSlice
  /\ retTree = Nil
  /\ retDepth = 0
  /\ retSeq = <<>>
  /\ stopAt = 0

Init ==
  /\ \E seed \in Seeds :
       /\ heap = AddAll(NewTree(<<>>, Root), Root, seed)
       /\ inserted = UNION {Prefixes(seed[i]) : i \in 1..Len(seed)}
  /\ NoCall
  /\ tb = <<>>
  /\ todo = {}
  /\ bnode = Zero
  /\ nodes = <<>>
  /\ val = ZeroValue
  /\ pc = "off"
  /\ readers = <<>>
  /\ built = <<>>
  /\ LibOff

\* What a call leaves in the variables that describe the last call.
Returns(o, n, p, c, ns, t, d, s) ==
  /\ op' = o
  /\ node' = n
  /\ path' = p
  /\ cmp' = c
  /\ retNodes' = ns
  /\ retTree' = t
  /\ retDepth' = d
  /\ retSeq' = s
  /\ stopAt' = 0
  /\ UNCHANGED <<buildVars, readVars, libVars>>

\* tr.Add(p...) on the forest under construction.
AddCall ==
  /\ op = "idle"
  /\ nadd < MaxAdds
  /\ \E p \in ShortPaths :
       /\ heap' = Add(heap, Root, p)
       /\ inserted' = inserted \cup Prefixes(p)
       /\ nadd' = nadd + 1
       /\ Returns("Add", Zero, p, "none", NilSlice, Nil, 0, <<>>)

\* tr.Add(p...) once more with the path of the Add call just made.
AddAgainCall ==
  /\ op = "Add"
  /\ heap' = Add(heap, Root, path)
  /\ inserted' = inserted \cup Prefixes(path)
  /\ UNCHANGED nadd
  /\ Returns("AddAgain", Zero, path, "none", NilSlice, Nil, 0, <<>>)

\* for depth, n := range tr.All(), consumed to the end.
AllCall ==
  /\ op = "idle"
  /\ \E s \in All(heap, Root) :
       /\ UNCHANGED <<heap, inserted, nadd>>
       /\ Returns("All", Zero, <<>>, "none", NilSlice, Nil, 0, s)

\* for depth, n := range tr.Ordered(c), consumed to the end.
OrderedCall ==
  /\ op = "idle"
  /\ \E c \in Cmps : \E s \in TreeOrdered(heap, Root, c) :
       /\ UNCHANGED <<heap, inserted, nadd>>
       /\ Returns("Ordered", Zero, <<>>, c, NilSlice, Nil, 0, s)

\* What a range loop the consumer stops leaves in those variables.
ReturnsStopped(o, c, k, s) ==
  /\ op' = o
  /\ cmp' = c
  /\ stopAt' = k
  /\ retSeq' = s
  /\ UNCHANGED <<node, path, retNodes, retTree, retDepth, buildVars, readVars,
               libVars>>

\* The numbers of pairs a stopping consumer takes: from one up to one more
\* than the forest holds, and MaxStop at most.
StopAts ==
  {k \in 1..MaxStop : k <= Cardinality(Paths(heap, Root)) + 1}

\* for depth, n := range tr.All() with a loop body that breaks.
AllStopCall ==
  /\ op = "idle"
  /\ \E k \in StopAts : \E s \in AllYield(heap, Root, k) :
       /\ UNCHANGED <<heap, inserted, nadd>>
       /\ ReturnsStopped("AllStop", "none", k, s)

\* for depth, n := range tr.Ordered(c) with a loop body that breaks.
OrderedStopCall ==
  /\ op = "idle"
  /\ \E c \in Cmps : \E k \in StopAts :
       \E s \in TreeOrderedYield(heap, Root, c, k) :
         /\ UNCHANGED <<heap, inserted, nadd>>
         /\ ReturnsStopped("OrderedStop", c, k, s)

\* tr.DepthTree()
DepthTreeCall ==
  /\ op = "idle"
  /\ UNCHANGED <<heap, inserted, nadd>>
  /\ Returns("DepthTree", Zero, <<>>, "none", NilSlice, Nil,
             DepthTree(heap, Root), <<>>)

\* tr.Ancestors(n)
AncestorsCall ==
  /\ op = "idle"
  /\ \E n \in Targets : \E r \in Ancestors(heap, Root, n) :
       /\ UNCHANGED <<heap, inserted, nadd>>
       /\ Returns("Ancestors", n, <<>>, "none", r, Nil, 0, <<>>)

\* tr.FindTree(n)
FindTreeCall ==
  /\ op = "idle"
  /\ \E n \in Targets : \E r \in FindTree(heap, Root, n) :
       /\ UNCHANGED <<heap, inserted, nadd>>
       /\ Returns("FindTree", n, <<>>, "none", NilSlice, r, 0, <<>>)

\* tr.Family(n)
FamilyCall ==
  /\ op = "idle"
  /\ \E n \in Targets : \E r \in Family(heap, Root, n) :
       /\ heap' = r.heap
       /\ UNCHANGED <<inserted, nadd>>
       /\ Returns("Family", n, <<>>, "none", NilSlice, r.ret, 0, <<>>)

\* The caller is done with the result of the last call: the maps only the
\* result referred to are garbage.
Discard ==
  /\ op # "idle"
  /\ heap' = Collect(heap, {Root})
  /\ UNCHANGED <<inserted, nadd>>
  /\ Returns("idle", Zero, <<>>, "none", NilSlice, Nil, 0, <<>>)

Next ==
  \/ AddCall
  \/ AddAgainCall
  \/ AllCall
  \/ OrderedCall
  \/ AllStopCall
  \/ OrderedStopCall
  \/ DepthTreeCall
  \/ AncestorsCall
  \/ FindTreeCall
  \/ FamilyCall
  \/ Discard

Spec == Init /\ [][Next]_vars

\* ------------------------------------------------------------- Add on a family
\* fam.Add(p...) on the Tree the Family call just made returned.
FamilyAddCall ==
  /\ op = "Family"
  /\ nadd < MaxAdds
  /\ \E p \in ShortPaths :
       /\ heap' = Add(heap, retTree, p)
       /\ nadd' = nadd + 1
       /\ op' = "FamilyAdd"
       /\ path' = p
  /\ UNCHANGED <<inserted, node, cmp, retNodes, retTree, retDepth, retSeq,
                 stopAt, buildVars, readVars, libVars>>

\* The calls of a caller that extracts families and adds to them.
NextAlias ==
  \/ AddCall
  \/ FamilyCall
  \/ FamilyAddCall
  \/ Discard

SpecAlias == Init /\ [][NextAlias]_vars


\* ------------------------------------------------------------- readers
\* Threads that call the read-only methods on one finished forest at the
\* same time. A call that writes nothing reads the heap in one step; Family
\* takes a step for each statement that reads or writes the heap.
Readers == 1..NumReaders

\* The address of the Tree[N]{} reader r's Family allocates.
FamOf(r) == <<-r>>

\* A target that occurs in no forest of the model.
NoSuchId == DeepLen + 1

\* The forests the readers are started on.
ReaderSeeds == {<<>>, ScenarioPaths, TwoRootPaths}

\* The nodes the readers ask about.
ReaderTargets == Ids(heap, Root) \cup {NoSuchId}

\* A reader that is in no call and holds no result.
IdleReader ==
  [pc |-> "idle", op |-> "none", node |-> Zero, cmp |-> "none",
   anc |-> NilSlice, sub |-> Nil, seq |-> <<>>, nodes |-> NilSlice,
   tree |-> Nil]

InitReaders ==
  /\ \E seed \in ReaderSeeds :
       /\ heap = AddAll(NewTree(<<>>, Root), Root, seed)
       /\ inserted = UNION {Prefixes(seed[i]) : i \in 1..Len(seed)}
  /\ built = heap
  /\ readers = [r \in Readers |-> IdleReader]
  /\ LibOff
  /\ NoCall
  /\ tb = <<>>
  /\ todo = {}
  /\ bnode = Zero
  /\ nodes = <<>>
  /\ val = ZeroValue
  /\ pc = "off"

\* Reader r goes on to the state x; the heap is only read.
Reads(r, x) ==
  /\ readers' = [readers EXCEPT ![r] = x]
  /\ UNCHANGED <<heap, inserted, apiVars, buildVars, built, libVars>>

\* Reader r goes on to the state x, leaving the heap h.
Writes(r, x, h) ==
  /\ readers' = [readers EXCEPT ![r] = x]
  /\ heap' = h
  /\ UNCHANGED <<inserted, apiVars, buildVars, built, libVars>>

\* Reader r ranges over tr.All() to the end.
ReaderAll(r) ==
  /\ readers[r].pc = "idle"
  /\ \E s \in All(heap, Root) :
       Reads(r, [IdleReader EXCEPT !.pc = "done", !.op = "All", !.seq = s])

\* Reader r ranges over tr.Ordered(c) to the end.
ReaderOrdered(r) ==
  /\ readers[r].pc = "idle"
  /\ \E c \in Cmps : \E s \in TreeOrdered(heap, Root, c) :
       Reads(r, [IdleReader EXCEPT !.pc = "done", !.op = "Ordered",
                                   !.cmp = c, !.seq = s])

\* Reader r calls tr.Ancestors(n).
ReaderAncestors(r) ==
  /\ readers[r].pc = "idle"
  /\ \E n \in ReaderTargets : \E ns \in Ancestors(heap, Root, n) :
       Reads(r, [IdleReader EXCEPT !.pc = "done", !.op = "Ancestors",
                                   !.node = n, !.nodes = ns])

\* Reader r calls tr.FindTree(n).
ReaderFindTree(r) ==
  /\ readers[r].pc = "idle"
  /\ \E n \in ReaderTargets : \E t \in FindTree(heap, Root, n) :
       Reads(r, [IdleReader EXCEPT !.pc = "done", !.op = "FindTree",
                                   !.node = n, !.tree = t])

\* Reader r enters tr.Family(n): the test for a top-level key, then
\* anc := tr.Ancestors(node).
ReaderFamily(r) ==
  /\ readers[r].pc = "idle"
  /\ \E n \in ReaderTargets :
       IF n \in DOMAIN heap[Root]
       THEN Reads(r, [IdleReader EXCEPT !.pc = "done", !.op = "Family",
                                        !.node = n, !.tree = Root])
       ELSE \E anc \in Ancestors(heap, Root, n) :
              Reads(r, [IdleReader EXCEPT !.pc = "anc", !.op = "Family",
                                          !.node = n, !.anc = anc])

\* Family of reader r: return Tree[N]{} if len(anc) == 0, else
\* tr = tr.FindTree(node).
ReaderFamilyFind(r) ==
  /\ readers[r].pc = "anc"
  /\ IF Len(readers[r].anc) = 0
     THEN Writes(r, [readers[r] EXCEPT !.pc = "done", !.tree = FamOf(r)],
                 NewTree(heap, FamOf(r)))
     ELSE \E sub \in FindTree(heap, Root, readers[r].node) :
            Reads(r, [readers[r] EXCEPT !.pc = "sub", !.sub = sub])

\* Family of reader r: fam := Tree[N]{}; fam.Add(anc...).
ReaderFamilyAdd(r) ==
  /\ readers[r].pc = "sub"
  /\ Writes(r, [readers[r] EXCEPT !.pc = "fam"],
            Add(NewTree(heap, FamOf(r)), FamOf(r), readers[r].anc))

\* Family of reader r: tb := fam.FindTree(parent);
\* tb[parent][node] = tr[node]; return fam.
ReaderFamilyAttach(r) ==
  /\ readers[r].pc = "fam"
  /\ \E h \in FamilyAttach(heap, FamOf(r), readers[r].node, readers[r].anc,
                           readers[r].sub) :
       Writes(r, [readers[r] EXCEPT !.pc = "done", !.tree = FamOf(r)], h)

\* Reader r is done with its result: the maps its Family allocated are
\* garbage.
ReaderDiscard(r) ==
  /\ readers[r].pc = "done"
  /\ Writes(r, IdleReader,
            [a \in {x \in DOMAIN heap : x[1] # -r} |-> heap[a]])

NextReaders ==
  \E r \in Readers :
    \/ ReaderAll(r)
    \/ ReaderOrdered(r)
    \/ ReaderAncestors(r)
    \/ ReaderFindTree(r)
    \/ ReaderFamily(r)
    \/ ReaderFamilyFind(r)
    \/ ReaderFamilyAdd(r)
    \/ ReaderFamilyAttach(r)
    \/ ReaderDiscard(r)

SpecReaders == InitReaders /\ [][NextReaders]_vars


\* ------------------------------------------------------------- Table.BuildTree
\* tb.BuildTree() is entered: tr := Tree[N]{}.
InitBuild ==
  /\ tb \in Tables
  /\ heap = NewTree(<<>>, Root)
  /\ inserted = {}
  /\ NoCall
  /\ todo = DOMAIN tb
  /\ bnode = Zero
  /\ nodes = <<>>
  /\ val = ZeroValue
  /\ pc = "range"
  /\ readers = <<>>
  /\ built = <<>>
  /\ LibOff

\* The range loop delivers the next key and its value, in any order.
BuildRange ==
  /\ pc = "range"
  /\ \E k \in todo :
       /\ bnode' = k
       /\ nodes' = <<k>>
       /\ val' = tb[k]
       /\ todo' = todo \ {k}
  /\ pc' = "walk"
  /\ UNCHANGED <<heap, inserted, apiVars, readVars, libVars, tb>>

\* The turn of the parent walk that puts the parent behind the path.
BuildWalkAppend ==
  /\ pc = "walk"
  /\ HasParent(val)
  /\ Len(nodes) < MaxWalk
  /\ nodes' = Append(nodes, Parent(val))
  /\ val' = Lookup(tb, Parent(val))
  /\ UNCHANGED <<heap, inserted, apiVars, readVars, libVars, tb, todo, bnode, pc>>

\* One turn of the parent walk: the parent goes in front of the path.
BuildWalk ==
  /\ pc = "walk"
  /\ HasParent(val)
  /\ Len(nodes) < MaxWalk
  /\ nodes' = <<Parent(val)>> \o nodes
  /\ val' = Lookup(tb, Parent(val))
  /\ UNCHANGED <<heap, inserted, apiVars, readVars, libVars, tb, todo, bnode, pc>>

\* The walk reached a value without parent: tr.Add(nodes...).
BuildAdd ==
  /\ pc = "walk"
  /\ ~HasParent(val)
  /\ heap' = Add(heap, Root, nodes)
  /\ inserted' = inserted \cup Prefixes(nodes)
  /\ pc' = "range"
  /\ UNCHANGED <<apiVars, readVars, libVars, tb, todo, bnode, nodes, val>>

\* The range loop is over: return tr.
BuildReturn ==
  /\ pc = "range"
  /\ todo = {}
  /\ pc' = "done"
  /\ UNCHANGED <<heap, inserted, apiVars, readVars, libVars, tb, todo, bnode, nodes, val>>

NextBuild ==
  \/ BuildRange
  \/ BuildWalk
  \/ BuildAdd
  \/ BuildReturn

SpecBuild == InitBuild /\ [][NextBuild]_vars

\* ------------------------------------------------------------- other files
\* No Tree, Table or reader is in use.
TreeOff ==
  /\ heap = <<>>
  /\ inserted = {}
  /\ NoCall
  /\ tb = <<>>
  /\ todo = {}
  /\ bnode = Zero
  /\ nodes = <<>>
  /\ val = ZeroValue
  /\ pc = "off"
  /\ readers = <<>>
  /\ built = <<>>

\* A C char array is in memory; GoStringN has not been called.
InitStr ==
  /\ TreeOff
  /\ cstr \in CharArrays
  /\ clen = 0
  /\ gofn = "none"
  /\ gostr = <<>>
  /\ ErrOff
  /\ ConcOff

\* GoStringN(char, l) with the range loop, l within the array; l == 0 goes
\* to GoString, which needs a null in the array.
GoStringNCall ==
  /\ gofn = "none"
  /\ \E l \in 0..Len(cstr) :
       /\ l = 0 => \E i \in 1..Len(cstr) : cstr[i] = 0
       /\ clen' = l
       /\ gostr' = GoStringN(cstr, l)
  /\ gofn' = "GoStringN"
  /\ UNCHANGED <<treeVars, cstr, errVars, concVars>>

\* GoStringN(p, l) with the counting loop, l within the array.
GoStringNCountedCall ==
  /\ gofn = "none"
  /\ \E l \in 0..Len(cstr) :
       /\ clen' = l
       /\ gostr' = GoStringNCounted(cstr, l)
  /\ gofn' = "GoStringNCounted"
  /\ UNCHANGED <<treeVars, cstr, errVars, concVars>>

NextStr ==
  \/ GoStringNCall
  \/ GoStringNCountedCall

SpecStr == InitStr /\ [][NextStr]_vars


\* The program holds a base error, or none.
InitErr ==
  /\ TreeOff
  /\ StrOff
  /\ curErr \in BaseErrs
  /\ lastErr = [fn |-> "none"]
  /\ ConcOff

\* The error held is wrapped: fmt.Errorf("...: %w", err).
ErrorfCall ==
  /\ curErr # NilErr
  /\ Layers(curErr) < MaxLayers
  /\ curErr' = Errorf(curErr)
  /\ lastErr' = [fn |-> "Errorf"]
  /\ UNCHANGED <<treeVars, strVars, concVars>>

\* Error(source, err, details...) of command.go on the error held.
ErrorCall ==
  /\ \E s \in Sources, d \in DetailArgs, c \in Sites :
       /\ Layers(Error(s, curErr, d, c)) <= MaxLayers
       /\ curErr' = Error(s, curErr, d, c)
       /\ lastErr' = [fn |-> "Error", source |-> s, details |-> d,
                      caller |-> c]
  /\ UNCHANGED <<treeVars, strVars, concVars>>

\* Error(name, err) of log.go on the error held: logMessage(2, name, err).
LogErrorCall ==
  /\ \E s \in Sources \cup {""}, c \in Sites :
       /\ Layers(logMessage(s, curErr, c)) <= MaxLayers
       /\ curErr' = logMessage(s, curErr, c)
       /\ lastErr' = [fn |-> "logMessage", source |-> s, caller |-> c]
  /\ UNCHANGED <<treeVars, strVars, concVars>>

NextErr ==
  \/ ErrorfCall
  \/ ErrorCall
  \/ LogErrorCall

SpecErr == InitErr /\ [][NextErr]_vars


\* ------------------------------------------------------------- newCache
Keys == 1..NumKeys
Callers == 1..NumCallers

\* The zero value of V, which the wrapped lookup returns with an error.
ZeroV == 0

\* What the wrapped lookup may return for a key: the key's value and no
\* error, or the zero value and an error.
LookupResults(k) == {[value |-> k, err |-> FALSE], [value |-> ZeroV, err |-> TRUE]}

\* value, ok := cache.values[key]
MapGet(m, k) ==
  IF k \in DOMAIN m THEN [value |-> m[k], ok |-> TRUE]
  ELSE [value |-> ZeroV, ok |-> FALSE]

\* m[k] = v
MapSet(m, k, v) == (k :> v) @@ m

IdleCaller == [pc |-> "idle"]

\* newCache(lookup): an empty map, nobody in cache.lookup.
InitCache ==
  /\ TreeOff
  /\ StrOff
  /\ ErrOff
  /\ HostOff
  /\ cvalues = <<>>
  /\ cmu = [w |-> 0, r |-> {}]
  /\ cgo = [g \in Callers |-> IdleCaller]
  /\ invoked = [k \in Keys |-> 0]
  /\ ccalls = 0

\* Goroutine g calls cache.lookup(k).
CacheCall(g) ==
  /\ cgo[g].pc = "idle"
  /\ ccalls < MaxCalls
  /\ \E k \in Keys :
       cgo' = [cgo EXCEPT ![g] = [pc |-> "rlock", key |-> k]]
  /\ ccalls' = ccalls + 1
  /\ UNCHANGED <<treeVars, strVars, errVars, hostVars, cvalues, cmu, invoked>>

\* cache.RLock(): waits while a writer holds the lock.
CacheRLock(g) ==
  /\ cgo[g].pc = "rlock"
  /\ cmu.w = 0
  /\ cmu' = [cmu EXCEPT !.r = @ \cup {g}]
  /\ cgo' = [cgo EXCEPT ![g].pc = "read"]
  /\ UNCHANGED <<treeVars, strVars, errVars, hostVars, cvalues, invoked, ccalls>>

\* value, ok := cache.values[key]; cache.RUnlock(); the test of ok.
CacheRead(g) ==
  /\ cgo[g].pc = "read"
  /\ LET got == MapGet(cvalues, cgo[g].key)
     IN  cgo' = [cgo EXCEPT ![g] =
                   [pc |-> IF got.ok THEN "ret" ELSE "lock", key |-> cgo[g].key,
                    value |-> got.value, ok |-> got.ok, err |-> FALSE]]
  /\ cmu' = [cmu EXCEPT !.r = @ \ {g}]
  /\ UNCHANGED <<treeVars, strVars, errVars, hostVars, cvalues, invoked, ccalls>>

\* cache.Lock(): waits while a writer or a reader holds the lock.
CacheLock(g) ==
  /\ cgo[g].pc = "lock"
  /\ cmu.w = 0
  /\ cmu.r = {}
  /\ cmu' = [cmu EXCEPT !.w = g]
  /\ cgo' = [cgo EXCEPT ![g].pc = "locked"]
  /\ UNCHANGED <<treeVars, strVars, errVars, hostVars, cvalues, invoked, ccalls>>

\* value, err = lookup(key); cache.values[key] = value; cache.Unlock().
CacheFill(g) ==
  /\ cgo[g].pc = "locked"
  /\ \E res \in LookupResults(cgo[g].key) :
       /\ cvalues' = MapSet(cvalues, cgo[g].key, res.value)
       /\ cgo' = [cgo EXCEPT ![g].pc = "ret", ![g].value = res.value,
                             ![g].err = res.err]
  /\ invoked' = [invoked EXCEPT ![cgo[g].key] = @ + 1]
  /\ cmu' = [cmu EXCEPT !.w = 0]
  /\ UNCHANGED <<treeVars, strVars, errVars, hostVars, ccalls>>

\* return value, err
CacheReturn(g) ==
  /\ cgo[g].pc = "ret"
  /\ cgo' = [cgo EXCEPT ![g] = IdleCaller]
  /\ UNCHANGED <<treeVars, strVars, errVars, hostVars, cvalues, cmu, invoked, ccalls>>

NextCache ==
  \/ \E g \in Callers : CacheCall(g)
  \/ \E g \in Callers : CacheRLock(g)
  \/ \E g \in Callers : CacheRead(g)
  \/ \E g \in Callers : CacheLock(g)
  \/ \E g \in Callers : CacheFill(g)
  \/ \E g \in Callers : CacheReturn(g)

SpecCache == InitCache /\ [][NextCache]_vars


\* ------------------------------------------------------------- Hostname
\* The strings passed to Hostname: two spellings of each address, of which
\* netip.Addr.String gives the first, and a string that is no address.
BadAddr == [form |-> "bad"]
AddrStrings ==
  {[form |-> f, addr |-> a] : f \in {"canon", "alt"}, a \in Keys} \cup {BadAddr}

\* netip.ParseAddr(addr)
ParseAddr(s) ==
  IF s = BadAddr THEN [err |-> TRUE] ELSE [err |-> FALSE, ip |-> s.addr]

\* netip.Addr(addr).String()
AddrString(a) == [form |-> "canon", addr |-> a]

\* hs[0] of net.LookupAddr(ip)
HostNameOf(a) == [form |-> "host", addr |-> a]

\* The mutex is free, or held by a goroutine in lookup or by a resolver.
Free == <<>>
CallerId(g) == <<"lookup", g>>
ResolverId(j) == <<"resolver", j>>

\* Each call of Hostname starts at most one goroutine.
ResolverIds == 1..MaxCalls

\* hnames as declared, nobody in Hostname.
InitHost ==
  /\ TreeOff
  /\ StrOff
  /\ ErrOff
  /\ CacheOff
  /\ hnames = <<>>
  /\ hmu = Free
  /\ hgo = [g \in Callers |-> IdleCaller]
  /\ resolvers = <<>>
  /\ hstored = [a \in Keys |-> <<>>]
  /\ hcalls = 0

\* Goroutine g calls Hostname(s): the string is returned when it does not
\* parse, and lookup(hname(ip), &hnames) is entered when it does.
HostnameCall(g) ==
  /\ hgo[g].pc = "idle"
  /\ hcalls < MaxCalls
  /\ \E s \in AddrStrings :
       hgo' = [hgo EXCEPT ![g] =
                 IF ParseAddr(s).err THEN [pc |-> "ret", val |-> s]
                 ELSE [pc |-> "lock", key |-> ParseAddr(s).ip]]
  /\ hcalls' = hcalls + 1
  /\ UNCHANGED <<treeVars, strVars, errVars, cacheVars, hnames, hmu,
                 resolvers, hstored>>

\* names.Lock()
HostLock(g) ==
  /\ hgo[g].pc = "lock"
  /\ hmu = Free
  /\ hmu' = CallerId(g)
  /\ hgo' = [hgo EXCEPT ![g].pc = "check"]
  /\ UNCHANGED <<treeVars, strVars, errVars, cacheVars, hnames, resolvers,
                 hstored, hcalls>>

\* The test of the map finds nothing, whatever the map holds.
HostCheckAlwaysMiss(g) ==
  /\ hgo[g].pc = "check"
  /\ hgo' = [hgo EXCEPT ![g].pc = "lookup"]
  /\ hmu' = hmu
  /\ UNCHANGED <<treeVars, strVars, errVars, cacheVars, hnames, resolvers,
                 hstored, hcalls>>


\* if val, ok := names.names[key]; ok { return val }, with the deferred
\* Unlock on return.
HostCheck(g) ==
  /\ hgo[g].pc = "check"
  /\ IF hgo[g].key \in DOMAIN hnames
       THEN /\ hgo' = [hgo EXCEPT ![g] =
                         [pc |-> "ret", key |-> hgo[g].key,
                          val |-> hnames[hgo[g].key]]]
            /\ hmu' = Free
       ELSE /\ hgo' = [hgo EXCEPT ![g].pc = "lookup"]
            /\ hmu' = hmu
  /\ UNCHANGED <<treeVars, strVars, errVars, cacheVars, hnames, resolvers,
                 hstored, hcalls>>

\* val := key.lookup() of hname: the goroutine is started and the address
\* as a string is returned.
HostLookup(g) ==
  /\ hgo[g].pc = "lookup"
  /\ resolvers' = Append(resolvers, [pc |-> "resolve", key |-> hgo[g].key])
  /\ hgo' = [hgo EXCEPT ![g] = [pc |-> "store", key |-> hgo[g].key,
                                val |-> AddrString(hgo[g].key)]]
  /\ UNCHANGED <<treeVars, strVars, errVars, cacheVars, hnames, hmu, hstored,
                 hcalls>>

\* names.names[key] = val; return val, with the deferred Unlock.
HostStore(g) ==
  /\ hgo[g].pc = "store"
  /\ hnames' = MapSet(hnames, hgo[g].key, hgo[g].val)
  /\ hstored' = [hstored EXCEPT ![hgo[g].key] = Append(@, hgo[g].val)]
  /\ hmu' = Free
  /\ hgo' = [hgo EXCEPT ![g].pc = "ret"]
  /\ UNCHANGED <<treeVars, strVars, errVars, cacheVars, resolvers, hcalls>>

\* Hostname returns to its caller.
HostReturn(g) ==
  /\ hgo[g].pc = "ret"
  /\ hgo' = [hgo EXCEPT ![g] = IdleCaller]
  /\ UNCHANGED <<treeVars, strVars, errVars, cacheVars, hnames, hmu,
                 resolvers, hstored, hcalls>>

\* net.LookupAddr(ip) in the goroutine: a name is found, or err != nil and
\* the goroutine ends.
Resolve(j) ==
  /\ j \in DOMAIN resolvers
  /\ resolvers[j].pc = "resolve"
  /\ \E found \in BOOLEAN :
       resolvers' = [resolvers EXCEPT ![j].pc = IF found THEN "lock" ELSE "done"]
  /\ UNCHANGED <<treeVars, strVars, errVars, cacheVars, hnames, hmu, hgo,
                 hstored, hcalls>>

\* hnames.Lock() in the goroutine.
ResolverLock(j) ==
  /\ j \in DOMAIN resolvers
  /\ resolvers[j].pc = "lock"
  /\ hmu = Free
  /\ hmu' = ResolverId(j)
  /\ resolvers' = [resolvers EXCEPT ![j].pc = "store"]
  /\ UNCHANGED <<treeVars, strVars, errVars, cacheVars, hnames, hgo, hstored,
                 hcalls>>

\* hnames.names[addr] = hs[0] in the goroutine.
ResolverStore(j) ==
  /\ j \in DOMAIN resolvers
  /\ resolvers[j].pc = "store"
  /\ hnames' = MapSet(hnames, resolvers[j].key, HostNameOf(resolvers[j].key))
  /\ hstored' = [hstored EXCEPT ![resolvers[j].key] =
                   Append(@, HostNameOf(resolvers[j].key))]
  /\ resolvers' = [resolvers EXCEPT ![j].pc = "unlock"]
  /\ UNCHANGED <<treeVars, strVars, errVars, cacheVars, hmu, hgo, hcalls>>

\* hnames.Unlock() in the goroutine, which ends.
ResolverUnlock(j) ==
  /\ j \in DOMAIN resolvers
  /\ resolvers[j].pc = "unlock"
  /\ hmu' = Free
  /\ resolvers' = [resolvers EXCEPT ![j].pc = "done"]
  /\ UNCHANGED <<treeVars, strVars, errVars, cacheVars, hnames, hgo, hstored,
                 hcalls>>

NextHost ==
  \/ \E g \in Callers : HostnameCall(g)
  \/ \E g \in Callers : HostLock(g)
  \/ \E g \in Callers : HostCheck(g)
  \/ \E g \in Callers : HostLookup(g)
  \/ \E g \in Callers : HostStore(g)
  \/ \E g \in Callers : HostReturn(g)
  \/ \E j \in ResolverIds : Resolve(j)
  \/ \E j \in ResolverIds : ResolverLock(j)
  \/ \E j \in ResolverIds : ResolverStore(j)
  \/ \E j \in ResolverIds : ResolverUnlock(j)

SpecHost == InitHost /\ [][NextHost]_vars


\* ------------------------------------------------------------- properties
IsPrefix(p, q) == Len(p) <= Len(q) /\ SubSeq(q, 1, Len(p)) = p

\* The positions below position P, relative to P.
Below(h, a, P) ==
  {SubSeq(r, Len(P) + 1, Len(r)) :
     r \in {q \in Paths(h, a) : IsPrefix(P, q) /\ Len(q) > Len(P)}}

\* The number of levels of a forest: 0 when empty, else the maximum leaf
\* depth plus one with the roots at depth 0.
Levels(h, a) == MaxOver({Len(p) : p \in Paths(h, a)})

\* The forest built from the paths [A,B,D], [A,C], [A,B,E].
ScenarioForest == {<<1>>, <<1, 2>>, <<1, 3>>, <<1, 2, 4>>, <<1, 2, 5>>}
IsScenario == Paths(heap, Root) = ScenarioForest

\* C1: Family(target) of a present target holds nothing but target, its
\* ancestors and its descendants: every position of the result lies on a
\* root-to-target path or below target; a root target comes without the
\* other roots.
C1_FamilyOnlyKin ==
  (op = "Family" /\ node \in Ids(heap, Root)) =>
    \A q \in Paths(heap, retTree) :
      \E P \in Occurs(heap, Root, node) : IsPrefix(q, P) \/ IsPrefix(P, q)

\* C2: FindTree(target) of a present target returns a forest whose only
\* top-level node is target, with all of target's descendants below it.
C2_FindTreeRootedAtTarget ==
  (op = "FindTree" /\ node \in Ids(heap, Root)) =>
    /\ retTree # Nil
    /\ DOMAIN heap[retTree] = {node}
    /\ \E P \in Occurs(heap, Root, node) :
         Paths(heap, retTree) =
           {<<node>>} \cup {<<node>> \o q : q \in Below(heap, Root, P)}

\* C3 (as amended): DepthTree returns the number of levels plus one, that is
\* the maximum leaf depth plus two with the roots at depth 0, and 1 for the
\* empty forest; for the scenario forest it returns 4.
C3_DepthTreeIsLevelsPlusOne ==
  op = "DepthTree" =>
    /\ retDepth = Levels(heap, Root) + 1
    /\ IsScenario => retDepth = 4

\* C3 witness: DepthTree was called on the scenario forest.
C3_Witness == op = "DepthTree" /\ IsScenario /\ retDepth = 4

\* C3 as claimed: DepthTree returns the maximum leaf depth plus one; 3 for
\* the scenario forest.
C3_DepthTreeIsMaxLeafDepthPlusOne ==
  (op = "DepthTree" /\ Paths(heap, Root) # {}) =>
    /\ retDepth = Levels(heap, Root)
    /\ IsScenario => retDepth = 3

\* The siblings cmp reports equal stand in ascending identity order in s.
TiesAscending(s, c) ==
  \A i, j \in 1..Len(s) :
    (/\ i < j
     /\ s[i][1] = s[j][1]
     /\ \A k \in (i + 1)..(j - 1) : s[k][1] > s[i][1]
     /\ Cmp(c, s[i][2], s[j][2]) = 0) => s[i][2] < s[j][2]

\* C4: for a fixed forest and comparator Ordered can yield one sequence
\* only, in which siblings that compare equal stand in identity order.
C4_OrderedDeterministic ==
  op = "Ordered" =>
    /\ \A s \in TreeOrdered(heap, Root, cmp) : s = retSeq
    /\ TiesAscending(retSeq, cmp)

\* The identities of a sequence of nodes have no repetition.
NoRepeat(ns) == \A i, j \in 1..Len(ns) : ns[i] = ns[j] => i = j

\* C5: BuildTree does not follow a cyclic parent relation: it stops when the
\* walk meets an identity again, so the path it collects never holds an
\* identity twice.
C5_BuildTreeStopsOnCycle == pc = "walk" => NoRepeat(nodes)

\* The last identity of a position.
Last(p) == p[Len(p)]

\* C6 (as amended): an identity occurs at exactly the positions, that is
\* under exactly the parent chains, it was passed to Add with; Add neither
\* moves nor rejects an identity that exists elsewhere, so an identity passed
\* under two parent chains occurs under both.
C6_IdentityWhereInserted ==
  \A n \in Ids(heap, Root) \cup {Last(p) : p \in inserted} :
    Occurs(heap, Root, n) = {p \in inserted : Last(p) = n}

\* C6 witness: Add(2) on a forest that holds 2 below 1 left 2 at both places.
C6_Witness ==
  /\ op = "Add"
  /\ path = <<2>>
  /\ Occurs(heap, Root, 2) = {<<2>>, <<1, 2>>}

\* C6 as claimed: no identity occurs at two positions of the forest.
C6_IdentityUnique == CollisionFree(heap, Root)

\* The number of pairs of s that carry node n.
Count(s, n) == Cardinality({i \in 1..Len(s) : s[i][2] = n})

\* C7 (as amended): All yields exactly the identities inserted, each once for
\* every position it was inserted at; an identity is yielded exactly once
\* unless it was inserted under two different parent chains.
C7_AllYieldsEveryPosition ==
  op = "All" =>
    /\ {retSeq[i][2] : i \in 1..Len(retSeq)} = {Last(p) : p \in inserted}
    /\ \A n \in {Last(p) : p \in inserted} :
         Count(retSeq, n) = Cardinality({p \in inserted : Last(p) = n})

\* C7 witness: All ran over a forest with an identity at two positions and
\* yielded it twice.
C7_Witness ==
  /\ op = "All"
  /\ \E n \in Ids(heap, Root) :
       Cardinality(Occurs(heap, Root, n)) = 2 /\ Count(retSeq, n) = 2

\* C7 as claimed: All yields exactly the identities inserted, each once.
C7_AllYieldsEachIdentityOnce ==
  op = "All" =>
    /\ {retSeq[i][2] : i \in 1..Len(retSeq)} = {Last(p) : p \in inserted}
    /\ \A n \in {Last(p) : p \in inserted} : Count(retSeq, n) = 1

\* C8: Add(n0..nk) makes every prefix of the path a position of the forest
\* and creates nothing else, and it keeps every map object with every entry
\* it had: no existing subtree is removed or replaced.
C8_AddExtendsAndPreserves ==
  [][op' = "Add" =>
       /\ Paths(heap', Root) = Paths(heap, Root) \cup Prefixes(path')
       /\ \A a \in DOMAIN heap :
            /\ a \in DOMAIN heap'
            /\ \A n \in DOMAIN heap[a] :
                 n \in DOMAIN heap'[a] /\ heap'[a][n] = heap[a][n]]_vars

\* C8 witness: Add(1, 1) on the scenario forest created the child 1 of 1
\* beside the subtrees 1 already had.
C8_Witness ==
  /\ op = "Add"
  /\ path = <<1, 1>>
  /\ Paths(heap, Root) = ScenarioForest \cup {<<1, 1>>}

\* C9: in a collision-free forest Ancestors(target) followed by target is
\* the root-to-target path, at every depth.
C9_AncestorsIsPathToTarget ==
  (op = "Ancestors" /\ CollisionFree(heap, Root) /\ node \in Ids(heap, Root))
    => Occurs(heap, Root, node) = {Append(retNodes, node)}

\* C9 witness: Ancestors returned more ancestors than the scratch buffer
\* held at first.
C9_Witness ==
  /\ op = "Ancestors"
  /\ CollisionFree(heap, Root)
  /\ Len(retNodes) > InitCap

\* C10: in a collision-free forest Family of a present non-root target is
\* the chain of the target's ancestors followed by the target with its
\* whole subtree; Family(B) of the scenario forest is A -> B -> {D, E}.
C10_FamilyIsChainAndSubtree ==
  (/\ op = "Family"
   /\ CollisionFree(heap, Root)
   /\ node \in Ids(heap, Root)
   /\ <<node>> \notin Paths(heap, Root)) =>
    /\ \E P \in Occurs(heap, Root, node) :
         Paths(heap, retTree) =
           Prefixes(P) \cup {P \o q : q \in Below(heap, Root, P)}
    /\ (IsScenario /\ node = 2) =>
         Paths(heap, retTree) = {<<1>>, <<1, 2>>, <<1, 2, 4>>, <<1, 2, 5>>}

\* C10 witness: Family(B) was called on the scenario forest.
C10_Witness ==
  /\ op = "Family"
  /\ IsScenario
  /\ node = 2
  /\ Paths(heap, retTree) = {<<1>>, <<1, 2>>, <<1, 2, 4>>, <<1, 2, 5>>}

\* A sequence of (depth, node) pairs that starts at depth 0 and never
\* descends by more than one level at a time.
WellNested(s) ==
  /\ s # <<>> => s[1][1] = 0
  /\ \A i \in 2..Len(s) : s[i][1] >= 0 /\ s[i][1] <= s[i - 1][1] + 1

RECURSIVE PathAt(_, _)
\* The position a well nested sequence gives its i-th pair: the pair's node
\* under the position of the nearest earlier pair one level up.
PathAt(s, i) ==
  IF s[i][1] = 0 THEN <<s[i][2]>>
  ELSE Append(PathAt(s, MaxOver({j \in 1..(i - 1) : s[j][1] = s[i][1] - 1})),
              s[i][2])

\* s is a depth-first walk of the forest at a: each position of the forest
\* is yielded once, with its depth, a node's subtree right after the node.
IsDepthFirst(s, h, a) ==
  /\ WellNested(s)
  /\ Len(s) = Cardinality(Paths(h, a))
  /\ {PathAt(s, i) : i \in 1..Len(s)} = Paths(h, a)

\* The position of the parent of a position.
Front(p) == SubSeq(p, 1, Len(p) - 1)

\* C11: Ordered(cmp) walks the forest depth-first, each node followed at
\* once by its own subtree, and at every level the siblings come in
\* ascending cmp order; with the descending comparator the scenario forest
\* is yielded as A, C, B, E, D.
C11_OrderedSortsEveryLevel ==
  op = "Ordered" =>
    /\ IsDepthFirst(retSeq, heap, Root)
    /\ \A i, j \in 1..Len(retSeq) :
         (i < j /\ Front(PathAt(retSeq, i)) = Front(PathAt(retSeq, j)))
           => Cmp(cmp, retSeq[i][2], retSeq[j][2]) <= 0
    /\ (IsScenario /\ cmp = "desc") =>
         retSeq = << <<0, 1>>, <<1, 3>>, <<1, 2>>, <<2, 5>>, <<2, 4>> >>

\* C11 witness: Ordered with the descending comparator walked the scenario
\* forest.
C11_Witness ==
  /\ op = "Ordered"
  /\ cmp = "desc"
  /\ IsScenario
  /\ retSeq = << <<0, 1>>, <<1, 3>>, <<1, 2>>, <<2, 5>>, <<2, 4>> >>

\* The number of times a sequence holds the pair p.
PairCount(s, p) == Cardinality({i \in 1..Len(s) : s[i] = p})

\* C12: the pairs Ordered(cmp) yields are a permutation of the pairs All
\* yields, whatever the comparator and whatever order All takes: the same
\* pairs, each as many times.
C12_OrderedPermutesAll ==
  op = "Ordered" =>
    \A a \in All(heap, Root) :
      /\ Len(a) = Len(retSeq)
      /\ \A i \in 1..Len(a) : PairCount(retSeq, a[i]) = PairCount(a, a[i])

\* C12 witness: Ordered yielded the scenario forest in another sequence
\* than some walk of All.
C12_Witness ==
  /\ op = "Ordered"
  /\ IsScenario
  /\ Len(retSeq) = 5
  /\ \E a \in All(heap, Root) : a # retSeq

\* C13: whatever order the range loops take, All yields a finite
\* depth-first walk: roots at depth 0, a child one deeper than its parent,
\* the subtree of a node right after the node; the scenario forest gives
\* A:0, B:1, C:1, D:2, E:2.
C13_AllIsDepthFirst ==
  op = "All" =>
    /\ IsDepthFirst(retSeq, heap, Root)
    /\ IsScenario =>
         {retSeq[i] : i \in 1..Len(retSeq)} =
           {<<0, 1>>, <<1, 2>>, <<1, 3>>, <<2, 4>>, <<2, 5>>}

\* C13 witness: All walked the scenario forest taking C before B.
C13_Witness ==
  /\ op = "All"
  /\ IsScenario
  /\ retSeq = << <<0, 1>>, <<1, 3>>, <<1, 2>>, <<2, 4>>, <<2, 5>> >>

RECURSIVE ChainTo(_, _, _)
\* The chain of parents of n by Table.Parent, from the node without parent
\* down to n; at most fuel parents are followed.
ChainTo(t, n, fuel) ==
  IF TableParent(t, n)[1] = Zero \/ fuel = 0 THEN <<n>>
  ELSE Append(ChainTo(t, TableParent(t, n)[1], fuel - 1), n)

\* The chain of n in a table over the identities 1..(NumIds + 1).
Chain(t, n) == ChainTo(t, n, NumIds + 1)

\* No chain of parents of the table comes back to an identity.
Acyclic(t) == \A k \in DOMAIN t : NoRepeat(Chain(t, k))

\* C14: for an acyclic table the parent walk of BuildTree always comes to
\* an end and the forest returned holds every table node at its chain of
\* parents and nothing else: a node without parent is a root, and a parent
\* without table entry is inserted as the root of its children's chains.
C14_BuildTreeAddsEveryChain ==
  Acyclic(tb) =>
    /\ (pc = "walk" /\ HasParent(val)) => Len(nodes) < MaxWalk
    /\ pc = "done" =>
         /\ \A k \in DOMAIN tb : Chain(tb, k) \in Paths(heap, Root)
         /\ Paths(heap, Root) =
              UNION {Prefixes(Chain(tb, k)) : k \in DOMAIN tb}
         /\ \A k \in DOMAIN tb :
              /\ ~HasParent(tb[k]) => <<k>> \in Paths(heap, Root)
              /\ (HasParent(tb[k]) /\ Parent(tb[k]) \notin DOMAIN tb)
                   => <<Parent(tb[k]), k>> \in Paths(heap, Root)

\* C14 witness: BuildTree returned for a table whose nodes form a chain
\* below a parent that has no table entry.
C14_Witness ==
  /\ pc = "done"
  /\ Acyclic(tb)
  /\ DOMAIN tb = {1, 2}
  /\ Paths(heap, Root) = {<<NumIds + 1>>, <<NumIds + 1, 1>>, <<NumIds + 1, 1, 2>>}

\* C15: Add is idempotent: Add(path) called again right after Add(path)
\* leaves every map as it was, and so also the sequences All can yield.
C15_AddIdempotent ==
  [][op' = "AddAgain" =>
       /\ heap' = heap
       /\ Paths(heap', Root) = Paths(heap, Root)
       /\ All(heap', Root) = All(heap, Root)]_vars

\* C15 witness: Add(2, 1) was repeated on the scenario forest it had
\* extended by a second root.
C15_Witness ==
  /\ op = "AddAgain"
  /\ path = <<2, 1>>
  /\ Paths(heap, Root) = ScenarioForest \cup {<<2>>, <<2, 1>>}

\* The smaller of two numbers.
Min(a, b) == IF a <= b THEN a ELSE b

\* C16: once yield has returned false neither All nor Ordered calls it
\* again, at any level of the recursion: a consumer that stops at its k-th
\* pair is called with exactly the first k pairs of a walk it could have
\* taken to the end, or with the whole walk when that has fewer pairs.
C16_NoYieldAfterStop ==
  op \in {"AllStop", "OrderedStop"} =>
    /\ Len(retSeq) = Min(stopAt, Cardinality(Paths(heap, Root)))
    /\ \A i \in 1..(Len(retSeq) - 1) : Yield(SubSeq(retSeq, 1, i), stopAt)
    /\ op = "AllStop" =>
         \E s \in All(heap, Root) : IsPrefix(retSeq, s)
    /\ op = "OrderedStop" =>
         \E s \in TreeOrdered(heap, Root, cmp) : IsPrefix(retSeq, s)

\* C16 witness: the consumer of All stopped inside the subtree of B of the
\* scenario forest, two levels down, with C not yielded yet.
C16_Witness ==
  /\ op = "AllStop"
  /\ IsScenario
  /\ stopAt = 3
  /\ retSeq = << <<0, 1>>, <<1, 2>>, <<2, 4>> >>

\* The calls that only read the forest.
ReadOps ==
  {"All", "Ordered", "AllStop", "OrderedStop", "DepthTree", "Ancestors",
   "FindTree", "Family"}

\* C17: All, Ordered, DepthTree, Ancestors, FindTree and Family leave the
\* forest they are called on as it was: every map reachable from it has the
\* entries it had, so its positions are the same, whether the target is
\* present or not.
C17_ReadOpsKeepForest ==
  [][op' \in ReadOps =>
       /\ Collect(heap', {Root}) = Collect(heap, {Root})
       /\ Paths(heap', Root) = Paths(heap, Root)]_vars

\* C17 witness: Family(D) built a new forest for a leaf of the scenario
\* forest, which still stands as it was.
C17_Witness ==
  /\ op = "Family"
  /\ node = 4
  /\ retTree = Fam
  /\ Paths(heap, retTree) = {<<1>>, <<1, 2>>, <<1, 2, 4>>}
  /\ IsScenario

\* The result reader state x holds is one the call gives when run alone on
\* the forest as it was built.
AloneResult(x) ==
  CASE x.op = "All" -> x.seq \in All(built, Root)
    [] x.op = "Ordered" -> x.seq \in TreeOrdered(built, Root, x.cmp)
    [] x.op = "Ancestors" -> x.nodes \in Ancestors(built, Root, x.node)
    [] x.op = "FindTree" ->
         /\ x.tree \in FindTree(built, Root, x.node)
         /\ x.tree # Nil => Paths(heap, x.tree) = Paths(built, x.tree)
    [] x.op = "Family" ->
         \E f \in Family(built, Root, x.node) :
           Paths(heap, x.tree) = Paths(f.heap, f.ret)

\* C18: when several threads call All, Ordered, Ancestors, FindTree and
\* Family on one finished forest at the same time, the steps of their calls
\* interleaved in any way, every call returns a result it can return when
\* it runs alone, and goes on holding it while the others run.
C18_ReadersSeeAloneResults ==
  \A r \in DOMAIN readers :
    readers[r].pc = "done" => AloneResult(readers[r])

\* C18 witness: on the scenario forest one thread holds the result of
\* Family(D) while another is inside Family(E), between fam.Add and the
\* attachment of the subtree.
C18_Witness ==
  /\ IsScenario
  /\ \E r, q \in DOMAIN readers :
       /\ readers[r].pc = "done"
       /\ readers[r].op = "Family"
       /\ readers[r].node = 4
       /\ Paths(heap, readers[r].tree) = {<<1>>, <<1, 2>>, <<1, 2, 4>>}
       /\ readers[q].pc = "fam"
       /\ readers[q].node = 5

\* C19: Family of a target that occurs nowhere in the forest, the empty
\* forest included, returns an empty forest: a Tree that is not nil and has
\* no node.
C19_FamilyOfAbsentIsEmpty ==
  (op = "Family" /\ node \notin Ids(heap, Root)) =>
    /\ retTree # Nil
    /\ retTree \in DOMAIN heap
    /\ retTree # Root
    /\ heap[retTree] = <<>>
    /\ Paths(heap, retTree) = {}

\* C19 witness: Family of an absent target was called on a forest that has
\* nodes and returned a forest that has none.
C19_Witness ==
  /\ op = "Family"
  /\ node \notin Ids(heap, Root)
  /\ Paths(heap, Root) # {}
  /\ Paths(heap, retTree) = {}

\* C20: FindTree returns nil exactly when the target occurs nowhere in the
\* forest; for a target at any depth the Tree returned is not nil and has
\* the target among its top-level nodes.
C20_FindTreeNilIffAbsent ==
  op = "FindTree" =>
    /\ retTree = Nil <=> node \notin Ids(heap, Root)
    /\ retTree # Nil =>
         /\ retTree \in Reach(heap, Root)
         /\ node \in DOMAIN heap[retTree]

\* C20 witness: FindTree found a target more levels down than the key test
\* of the first call reaches.
C20_Witness ==
  /\ op = "FindTree"
  /\ retTree # Nil
  /\ Len(retTree) > 2
  /\ node \in DOMAIN heap[retTree]

\* C21 (as amended): Ancestors returns an empty slice for a target that
\* occurs nowhere and for a target that occurs only as a root; for a target
\* that is a root and also occurs below another node it returns the
\* ancestors of one of the occurrences, whichever the walk meets first.
C21_AncestorsEmptyForRootOnlyOrAbsent ==
  op = "Ancestors" =>
    /\ node \notin Ids(heap, Root) => Len(retNodes) = 0
    /\ Occurs(heap, Root, node) = {<<node>>} => Len(retNodes) = 0
    /\ node \in Ids(heap, Root) =>
         Append(retNodes, node) \in Occurs(heap, Root, node)

\* C21 witness: the target is a root and a child of another root, and
\* Ancestors returned that other root.
C21_Witness ==
  /\ op = "Ancestors"
  /\ <<node>> \in Paths(heap, Root)
  /\ Len(retNodes) = 1
  /\ Append(retNodes, node) \in Paths(heap, Root)

\* C21 as claimed: Ancestors returns an empty slice whenever the target is
\* a root of the forest or occurs nowhere.
C21_AncestorsEmptyForRootOrAbsent ==
  (op = "Ancestors"
     /\ (<<node>> \in Paths(heap, Root) \/ node \notin Ids(heap, Root)))
    => Len(retNodes) = 0

\* C22: Add with no nodes returns with the forest as it was, and so does
\* the last call of the recursion of every Add, made with no nodes on the
\* Tree at the end of the path: that Tree keeps its entries when it
\* existed and is empty when the call created it.
C22_AddEmptyPathIsNoOp ==
  [][op' = "Add" =>
       /\ path' = <<>> => heap' = heap
       /\ heap'[Root \o path'] =
            IF Root \o path' \in DOMAIN heap
            THEN heap[Root \o path'] ELSE <<>>]_vars

\* C22 witness: Add() was called on the scenario forest, which stands as
\* it was.
C22_Witness ==
  /\ op = "Add"
  /\ path = <<>>
  /\ IsScenario
  /\ nadd = 1

\* C23: for an acyclic table the forest BuildTree builds holds no identity
\* at two positions, at any moment of the build, and the forest it returns
\* holds every key of the table and every parent named in it at exactly
\* one position.
C23_BuildTreeKeepsIdentitiesUnique ==
  Acyclic(tb) =>
    /\ CollisionFree(heap, Root)
    /\ pc = "done" =>
         /\ Ids(heap, Root) =
              DOMAIN tb \cup
                {Parent(tb[k]) : k \in {j \in DOMAIN tb : HasParent(tb[j])}}
         /\ \A n \in Ids(heap, Root) :
              Occurs(heap, Root, n) = {Chain(tb, n)}

\* C23 witness: BuildTree returned for a table whose two entries name the
\* same parent, which has no entry; the parent is at one position.
C23_Witness ==
  /\ pc = "done"
  /\ DOMAIN tb = {1, 2}
  /\ Paths(heap, Root) = {<<NumIds + 1>>, <<NumIds + 1, 1>>, <<NumIds + 1, 2>>}

\* The number of elements among the first l of cs in front of the first
\* null, l when none of them is null.
UpToNull(cs, l) ==
  LET nulls == {i \in 1..l : cs[i] = 0}
  IN  IF nulls = {} THEN l
      ELSE (CHOOSE i \in nulls : \A j \in nulls : i <= j) - 1

\* C24: GoStringN(p, l) with l > 0 returns the characters up to, not
\* including, the first null among the first l elements, and all l
\* characters when none of them is null.
C24_GoStringNUpToNullOrLength ==
  (gofn # "none" /\ clen > 0) =>
    gostr = [i \in 1..UpToNull(cstr, clen) |-> Byte(cstr[i])]

RECURSIVE ChainOfErr(_)
\* The errors of the chain of e, the outermost first.
ChainOfErr(e) ==
  IF e.kind = "nil" THEN <<>>
  ELSE <<e>> \o
       (CASE e.kind = "wrapError"  -> ChainOfErr(e.err)
          [] e.kind = "LogMessage" -> ChainOfErr(e.E)
          [] e.kind = "Err"        -> ChainOfErr(e.err)
          [] OTHER                 -> <<>>)

\* The places in the chain of e of the errors of the type named kind.
Carried(e, kind) ==
  {i \in 1..Len(ChainOfErr(e)) : ChainOfErr(e)[i].kind = kind}

\* The outermost error of that type in the chain of e.
Outermost(e, kind) ==
  ChainOfErr(e)[CHOOSE i \in Carried(e, kind) :
                  \A j \in Carried(e, kind) : i <= j]

\* C25: Error returns the LogMessage err is or wraps as it stands, with
\* its Source, E, File, Line and Detail; an err that carries none gets a
\* new record with the source passed and the caller's location; so Error
\* applied to what Error returned returns it again. The same holds for
\* Error of log.go and its *Err, where a nil err gives nil.
C25_ErrorPercolates ==
  [][/\ lastErr'.fn = "Error" =>
          IF Carried(curErr, "LogMessage") # {}
          THEN curErr' = Outermost(curErr, "LogMessage")
          ELSE /\ curErr'.kind = "LogMessage"
               /\ curErr'.Source = lastErr'.source
               /\ curErr'.E = curErr
               /\ curErr'.File = DirBase(lastErr'.caller.file)
               /\ curErr'.Line = lastErr'.caller.line
     /\ lastErr'.fn = "logMessage" =>
          IF curErr = NilErr THEN curErr' = NilErr
          ELSE IF Carried(curErr, "Err") # {}
               THEN curErr' = Outermost(curErr, "Err")
               ELSE /\ curErr'.kind = "Err"
                    /\ curErr'.err = curErr
                    /\ curErr'.file = lastErr'.caller.file
                    /\ curErr'.line = lastErr'.caller.line
     /\ (lastErr'.fn \in {"Error", "logMessage"} /\ lastErr'.fn = lastErr.fn)
          => curErr' = curErr]_vars

\* C25 witness: Error was called on an error that carries a LogMessage
\* made with another source at another call site, and returned that
\* LogMessage.
C25_Witness ==
  /\ lastErr.fn = "Error"
  /\ curErr.kind = "LogMessage"
  /\ curErr.Source # lastErr.source
  /\ curErr.File # DirBase(lastErr.caller.file)
  /\ curErr.E.kind = "Errno"

\* C26: Add calls commute: the forest after Add(p) and then Add(q) is the
\* forest after Add(q) and then Add(p), for every forest and all paths p
\* and q; so every order of adding a collection of paths, and every order
\* in which BuildTree ranges over its table, gives the same forest.
C26_AddCommutes ==
  [][op' = "Add" =>
       \A q \in ShortPaths :
         /\ Add(heap', Root, q) = Add(Add(heap, Root, q), Root, path')
         /\ Paths(Add(heap', Root, q), Root) =
              Paths(heap, Root) \cup Prefixes(path') \cup Prefixes(q)]_vars

\* C26 witness: Add(2, 2) was called on the scenario forest, where the
\* paths it commutes with share its first node or none.
C26_Witness ==
  /\ op = "Add"
  /\ path = <<2, 2>>
  /\ Paths(heap, Root) = ScenarioForest \cup {<<2>>, <<2, 2>>}

\* C27: the forest Family returned is independent of the forest it was
\* taken from: an Add on the forest returned leaves the original with the
\* positions it had.
C27_FamilyResultIndependent ==
  [][op' = "FamilyAdd" => Paths(heap', Root) = Paths(heap, Root)]_vars

\* C28: the cache of newCache memoizes: for every key the wrapped lookup is
\* invoked at most once, however many goroutines call cache.lookup for the
\* key at the same time.
C28_LookupInvokedAtMostOnce ==
  \A k \in Keys : invoked[k] <= 1

\* The goroutines started to resolve address a.
ResolversOf(a) == {j \in DOMAIN resolvers : resolvers[j].key = a}

\* A goroutine waits for the mutex of hnames.
HostWaiting ==
  \/ \E g \in Callers : hgo[g].pc = "lock"
  \/ \E j \in DOMAIN resolvers : resolvers[j].pc = "lock"

\* A step that takes the mutex or is made while holding it.
HostProgress ==
  \/ \E g \in Callers : HostLock(g) \/ HostCheck(g) \/ HostLookup(g) \/ HostStore(g)
  \/ \E j \in ResolverIds : ResolverLock(j) \/ ResolverStore(j) \/ ResolverUnlock(j)

\* C29: under every interleaving of Hostname calls and resolver goroutines,
\* at most one goroutine is started per address and exactly one once the
\* address has an entry; the values stored for an address are the address
\* string and then, at most once, the host name, and the entry is the last
\* of them; and whenever a goroutine waits for the mutex, the mutex can be
\* taken or its holder can go on.
C29_HostnameCacheOneResolver ==
  /\ \A a \in Keys :
       /\ Cardinality(ResolversOf(a)) <= 1
       /\ a \in DOMAIN hnames => Cardinality(ResolversOf(a)) = 1
       /\ hstored[a] \in {<<>>, <<AddrString(a)>>,
                          <<AddrString(a), HostNameOf(a)>>}
       /\ a \in DOMAIN hnames <=> hstored[a] # <<>>
       /\ a \in DOMAIN hnames => hnames[a] = hstored[a][Len(hstored[a])]
  /\ HostWaiting => ENABLED HostProgress

\* A resolver stored the host name of an address after a Hostname call
\* stored the address string, and a later Hostname call of the address has
\* found the name in the map and is about to return it.
C29_Witness ==
  \E a \in Keys, g \in Callers :
    /\ hstored[a] = <<AddrString(a), HostNameOf(a)>>
    /\ hcalls >= 2
    /\ hgo[g] = [pc |-> "ret", key |-> a, val |-> HostNameOf(a)]
====
